---------------------------- MODULE Spec2Model ----------------------------
(***************************************************************************)
(* Logic Circuit Simulator: the tokenizer and recursive-descent parser of  *)
(* logic_parser.py, the gate builder, evaluator and truth-table generator  *)
(* of circuit_generator.py, driven as main.py drives them.                 *)
(*                                                                         *)
(* A Python str is a sequence of one-character strings, positions are the  *)
(* 0-based positions of the source (expression[pos] is e[pos + 1] here).   *)
(* Python's None is the record None; an exception is the tuple of its      *)
(* args, and the empty tuple stands for "nothing was raised".              *)
(***************************************************************************)
EXTENDS Integers, Sequences, FiniteSets, TLC

VARIABLES
  parser,       \* the LogicParser: expression, pos, current_token
  pc,           \* where main's try block stands
  parse_tree,   \* what parser.parse() returned
  exc,          \* the args of the exception parse() raised
  generator,    \* the CircuitGenerator
  heap,         \* the list objects
  circuits,     \* the circuit dicts generate() has returned, in call order
  last_call     \* the last call made on a circuit: its arguments and result

vars == <<parser, pc, parse_tree, exc, generator, heap, circuits, last_call>>

----------------------------------------------------------------------------
(* Values *)

None == [type |-> "None"]

NoExc == <<>>

\* ord(c) for the characters an expression is written with here: the digits
\* from 48, the upper-case letters from 65, the lower-case letters from 97,
\* and tab, space, ampersand, parentheses, underscore and bar.
Digits == <<"0", "1", "2", "3", "4", "5", "6", "7", "8", "9">>

Upper ==
  <<"A", "B", "C", "D", "E", "F", "G", "H", "I", "J", "K", "L", "M",
    "N", "O", "P", "Q", "R", "S", "T", "U", "V", "W", "X", "Y", "Z">>

Lower ==
  <<"a", "b", "c", "d", "e", "f", "g", "h", "i", "j", "k", "l", "m",
    "n", "o", "p", "q", "r", "s", "t", "u", "v", "w", "x", "y", "z">>

IndexOf(s, c) == CHOOSE i \in 1..Len(s) : s[i] = c

Code(c) ==
  IF \E i \in 1..26 : Upper[i] = c THEN 64 + IndexOf(Upper, c)
  ELSE IF \E i \in 1..26 : Lower[i] = c THEN 96 + IndexOf(Lower, c)
  ELSE IF \E i \in 1..10 : Digits[i] = c THEN 47 + IndexOf(Digits, c)
  ELSE IF c = " " THEN 32
  ELSE IF c = "&" THEN 38
  ELSE IF c = "(" THEN 40
  ELSE IF c = ")" THEN 41
  ELSE IF c = "_" THEN 95
  ELSE IF c = "|" THEN 124
  ELSE 9

\* [a-zA-Z_]
IsIdentStart(c) ==
  LET n == Code(c) IN (n >= 65 /\ n <= 90) \/ (n >= 97 /\ n <= 122) \/ n = 95

\* [a-zA-Z0-9_]
IsIdentChar(c) ==
  LET n == Code(c) IN IsIdentStart(c) \/ (n >= 48 /\ n <= 57)

\* s[pos:] starts with the literal word w
StartsWith(s, pos, w) ==
  /\ pos + Len(w) <= Len(s)
  /\ \A i \in 1..Len(w) : s[pos + i] = w[i]

\* s[a:b]
Slice(s, a, b) == [i \in 1..(b - a) |-> s[a + i]]

\* str < str, as Python compares strings: by code point, a proper prefix first
RECURSIVE StrLess(_, _)
StrLess(a, b) ==
  IF a = <<>> THEN b # <<>>
  ELSE IF b = <<>> THEN FALSE
  ELSE IF a[1] # b[1] THEN Code(a[1]) < Code(b[1])
  ELSE StrLess(Tail(a), Tail(b))

----------------------------------------------------------------------------
(* logic_parser.py: LogicParser *)

LogicParser(expression) ==
  [expression |-> expression, pos |-> 0, current_token |-> None]

\* the while loop of next_token: the first position at or after pos that
\* does not hold a space
RECURSIVE SkipSpaces(_, _)
SkipSpaces(e, pos) ==
  IF pos < Len(e) /\ e[pos + 1] = " " THEN SkipSpaces(e, pos + 1) ELSE pos

\* re.match of AND|OR|NOT at e[pos:]: the first alternative that matches at
\* pos, <<>> when none does
MatchKeyword(e, pos) ==
  IF StartsWith(e, pos, <<"A", "N", "D">>) THEN <<"A", "N", "D">>
  ELSE IF StartsWith(e, pos, <<"O", "R">>) THEN <<"O", "R">>
  ELSE IF StartsWith(e, pos, <<"N", "O", "T">>) THEN <<"N", "O", "T">>
  ELSE <<>>

\* the end of the greedy [a-zA-Z0-9_]* run that starts at pos
RECURSIVE IdentEnd(_, _)
IdentEnd(e, pos) ==
  IF pos < Len(e) /\ IsIdentChar(e[pos + 1]) THEN IdentEnd(e, pos + 1) ELSE pos

\* re.match of [a-zA-Z_][a-zA-Z0-9_]* at e[pos:]: the match, <<>> when none
MatchIdentifier(e, pos) ==
  IF pos < Len(e) /\ IsIdentStart(e[pos + 1])
  THEN Slice(e, pos, IdentEnd(e, pos + 1))
  ELSE <<>>

KeywordType(m) ==
  IF m = <<"A", "N", "D">> THEN "AND" ELSE IF m = <<"O", "R">> THEN "OR" ELSE "NOT"

\* A call hands back the parser as the call left it, the value returned
\* (None when the call raised) and the args of the exception raised.
Raise(self, args) == [self |-> self, ret |-> None, exc |-> args]

Return(self, value) == [self |-> self, ret |-> value, exc |-> NoExc]

\* self.current_token = token; self.pos = pos; return
Token(self, token, pos) ==
  Return([self EXCEPT !.current_token = token, !.pos = pos], None)

\* next_token that takes a character no rule matches for the end of the
\* input instead of raising
next_token_UnknownEndsInput(self) ==
  LET e == self.expression
      p == SkipSpaces(e, self.pos)
  IN IF p < Len(e) /\ e[p + 1] \in {"(", ")"}
       THEN Token(self, [type |-> IF e[p + 1] = "(" THEN "LPAREN" ELSE "RPAREN"], p + 1)
     ELSE IF p < Len(e) /\ MatchKeyword(e, p) # <<>>
       THEN Token(self, [type |-> KeywordType(MatchKeyword(e, p))],
                  p + Len(MatchKeyword(e, p)))
     ELSE IF p < Len(e) /\ MatchIdentifier(e, p) # <<>>
       THEN Token(self, [type |-> "IDENTIFIER", value |-> MatchIdentifier(e, p)],
                  p + Len(MatchIdentifier(e, p)))
     ELSE Token(self, None, p)

\* next_token: the spaces are skipped (self.pos moves) before anything else
next_token(self) ==
  LET e == self.expression
      p == SkipSpaces(e, self.pos)
  IN IF p >= Len(e)
       THEN Token(self, None, p)
     ELSE IF e[p + 1] \in {"(", ")"}
       THEN Token(self, [type |-> IF e[p + 1] = "(" THEN "LPAREN" ELSE "RPAREN"], p + 1)
     ELSE IF MatchKeyword(e, p) # <<>>
       THEN Token(self, [type |-> KeywordType(MatchKeyword(e, p))],
                  p + Len(MatchKeyword(e, p)))
     ELSE IF MatchIdentifier(e, p) # <<>>
       THEN Token(self, [type |-> "IDENTIFIER", value |-> MatchIdentifier(e, p)],
                  p + Len(MatchIdentifier(e, p)))
     ELSE Raise([self EXCEPT !.pos = p], <<"Invalid character">>)

\* Each call below hands its result to the operator that models the
\* statements after the call; a result that carries an exception is handed
\* on unchanged, as the exception propagates through the callers.

RECURSIVE expr(_), expr_loop(_, _), term(_), term_loop(_, _), factor(_)

\* factor, NOT branch: return {'type': 'NOT', 'right': self.factor()}
factor_not_return(right) ==
  IF right.exc # NoExc THEN right
  ELSE Return(right.self, [type |-> "NOT", right |-> right.ret])

\* factor, NOT branch, after self.next_token()
factor_not(n) ==
  IF n.exc # NoExc THEN n ELSE factor_not_return(factor(n.self))

\* factor, LPAREN branch, after the self.next_token() that moves past ')'
factor_paren_return(m, node) ==
  IF m.exc # NoExc THEN m ELSE Return(m.self, node)

\* the LPAREN branch without the check for the closing parenthesis
factor_paren_close_NoCheck(node) ==
  IF node.exc # NoExc THEN node
  ELSE factor_paren_return(next_token(node.self), node.ret)

\* factor, LPAREN branch, after node = self.expr()
factor_paren_close(node) ==
  IF node.exc # NoExc THEN node
  ELSE IF node.self.current_token.type # "RPAREN"
    THEN Raise(node.self, <<"Missing closing parenthesis">>)
  ELSE factor_paren_return(next_token(node.self), node.ret)

\* factor, LPAREN branch, after self.next_token()
factor_paren(n) ==
  IF n.exc # NoExc THEN n ELSE factor_paren_close(expr(n.self))

\* factor, IDENTIFIER branch, after self.next_token()
factor_identifier(n, node) ==
  IF n.exc # NoExc THEN n ELSE Return(n.self, node)

\* factor that returns no node, instead of raising, where no factor starts
factor_NoFactorReturnsNone(self) ==
  IF self.current_token.type = "NOT" THEN factor_not(next_token(self))
  ELSE IF self.current_token.type = "LPAREN" THEN factor_paren(next_token(self))
  ELSE IF self.current_token.type = "IDENTIFIER" THEN
    factor_identifier(next_token(self),
                      [type |-> "IDENTIFIER", value |-> self.current_token.value])
  ELSE Return(self, None)

\* factor := NOT factor | LPAREN expr RPAREN | IDENTIFIER
factor(self) ==
  IF self.current_token.type = "NOT" THEN factor_not(next_token(self))
  ELSE IF self.current_token.type = "LPAREN" THEN factor_paren(next_token(self))
  ELSE IF self.current_token.type = "IDENTIFIER" THEN
    factor_identifier(next_token(self),
                      [type |-> "IDENTIFIER", value |-> self.current_token.value])
  ELSE Raise(self, <<"Invalid factor">>)

\* term, loop body, after right = self.factor()
term_join(right, left) ==
  IF right.exc # NoExc THEN right
  ELSE term_loop(right.self, [type |-> "AND", left |-> left, right |-> right.ret])

\* term, loop body, after self.next_token()
term_right(n, left) ==
  IF n.exc # NoExc THEN n ELSE term_join(factor(n.self), left)

\* the while loop of term, entered with the local left
term_loop(self, left) ==
  IF self.current_token.type = "AND" THEN term_right(next_token(self), left)
  ELSE Return(self, left)

\* term, after left = self.factor()
term_enter(left) ==
  IF left.exc # NoExc THEN left ELSE term_loop(left.self, left.ret)

\* term := factor (AND factor)*
term(self) == term_enter(factor(self))

\* expr, loop body, after right = self.term()
expr_join(right, left) ==
  IF right.exc # NoExc THEN right
  ELSE expr_loop(right.self, [type |-> "OR", left |-> left, right |-> right.ret])

\* the loop body of expr with the right operand read by factor, not term
expr_right_ReadsFactor(n, left) ==
  IF n.exc # NoExc THEN n ELSE expr_join(factor(n.self), left)

\* expr, loop body, after self.next_token()
expr_right(n, left) ==
  IF n.exc # NoExc THEN n ELSE expr_join(term(n.self), left)

\* the while loop of expr, entered with the local left
expr_loop(self, left) ==
  IF self.current_token.type = "OR" THEN expr_right(next_token(self), left)
  ELSE Return(self, left)

\* expr, after left = self.term()
expr_enter(left) ==
  IF left.exc # NoExc THEN left ELSE expr_loop(left.self, left.ret)

\* expr := term (OR term)*
expr(self) == expr_enter(term(self))

\* parse, after self.next_token()
parse_expr(n) == IF n.exc # NoExc THEN n ELSE expr(n.self)

\* parse: read the first token, then expr
parse(self) == parse_expr(next_token(self))

----------------------------------------------------------------------------
(* circuit_generator.py: Gate *)

\* Gate(gate_type, inputs) with its gate_id set. A gate holds its operand
\* gates themselves: an INPUT gate's inputs is the one-element list of its
\* variable name. No field of a gate is assigned after it is built.
Gate(gate_type, inputs, gate_id) ==
  [gate_type |-> gate_type, inputs |-> inputs, gate_id |-> gate_id]

\* The dict handed to evaluate is one object that every gate of the tree
\* reads: a call returns its value together with the dict as the call
\* leaves it.

\* variable_values.setdefault(name, True): a missing name is stored as True
Get_SetDefaultTrue(variable_values, name) ==
  IF name \in DOMAIN variable_values
  THEN [ret |-> variable_values[name], variable_values |-> variable_values]
  ELSE [ret |-> TRUE,
        variable_values |-> [n \in DOMAIN variable_values \cup {name} |->
                               IF n = name THEN TRUE ELSE variable_values[n]]]

\* variable_values.get(name, False): the dict is read, never written
Get(variable_values, name) ==
  [ret |-> IF name \in DOMAIN variable_values THEN variable_values[name] ELSE FALSE,
   variable_values |-> variable_values]

RECURSIVE evaluate(_, _)
evaluate(self, variable_values) ==
  IF self.gate_type = "INPUT" THEN Get(variable_values, self.inputs[1])
  ELSE IF self.gate_type = "NOT" THEN
    LET input == evaluate(self.inputs[1], variable_values) IN
    [ret |-> ~input.ret, variable_values |-> input.variable_values]
  ELSE IF self.gate_type = "AND" THEN
    LET left == evaluate(self.inputs[1], variable_values)
        right == evaluate(self.inputs[2], left.variable_values)
    IN [ret |-> left.ret /\ right.ret, variable_values |-> right.variable_values]
  ELSE IF self.gate_type = "OR" THEN
    LET left == evaluate(self.inputs[1], variable_values)
        right == evaluate(self.inputs[2], left.variable_values)
    IN [ret |-> left.ret \/ right.ret, variable_values |-> right.variable_values]
  ELSE [ret |-> FALSE, variable_values |-> variable_values]

----------------------------------------------------------------------------
(* circuit_generator.py: CircuitGenerator *)

\* The list objects of the program live in heap, a sequence indexed by
\* address; a field that holds a list holds its address, so that two fields
\* holding the same list object hold the same address.

\* CircuitGenerator(parse_tree): self.gates is a new empty list
CircuitGenerator(tree, h) ==
  [self |-> [parse_tree |-> tree, gates |-> Len(h) + 1,
             input_variables |-> {}, gate_counter |-> 0],
   heap |-> Append(h, <<>>)]

\* gate.gate_id = self.gate_counter; self.gate_counter += 1;
\* self.gates.append(gate); return gate
Emit(self, h, gate_type, inputs) ==
  LET gate == Gate(gate_type, inputs, self.gate_counter) IN
  [self |-> [self EXCEPT !.gate_counter = self.gate_counter + 1],
   heap |-> [h EXCEPT ![self.gates] = Append(h[self.gates], gate)],
   ret |-> gate]

RECURSIVE _build_circuit(_, _, _)

\* _build_circuit that builds the right operand of AND and OR before the left
_build_circuit_RightFirst(self, h, node) ==
  IF node.type = "IDENTIFIER" THEN
    Emit([self EXCEPT !.input_variables = self.input_variables \cup {node.value}],
         h, "INPUT", <<node.value>>)
  ELSE IF node.type = "NOT" THEN
    LET input_gate == _build_circuit(self, h, node.right) IN
    Emit(input_gate.self, input_gate.heap, "NOT", <<input_gate.ret>>)
  ELSE IF node.type \in {"AND", "OR"} THEN
    LET right_gate == _build_circuit(self, h, node.right)
        left_gate == _build_circuit(right_gate.self, right_gate.heap, node.left)
    IN Emit(left_gate.self, left_gate.heap, node.type,
            <<left_gate.ret, right_gate.ret>>)
  ELSE [self |-> self, heap |-> h, ret |-> None]

_build_circuit(self, h, node) ==
  IF node.type = "IDENTIFIER" THEN
    Emit([self EXCEPT !.input_variables = self.input_variables \cup {node.value}],
         h, "INPUT", <<node.value>>)
  ELSE IF node.type = "NOT" THEN
    LET input_gate == _build_circuit(self, h, node.right) IN
    Emit(input_gate.self, input_gate.heap, "NOT", <<input_gate.ret>>)
  ELSE IF node.type \in {"AND", "OR"} THEN
    LET left_gate == _build_circuit(self, h, node.left)
        right_gate == _build_circuit(left_gate.self, left_gate.heap, node.right)
    IN Emit(right_gate.self, right_gate.heap, node.type,
            <<left_gate.ret, right_gate.ret>>)
  ELSE [self |-> self, heap |-> h, ret |-> None]

RECURSIVE Sorted(_)

\* sorted(list(names), reverse=True): the greatest name first
Sorted_Descending(names) ==
  IF names = {} THEN <<>>
  ELSE LET greatest == CHOOSE a \in names : \A b \in names \ {a} : StrLess(b, a)
       IN <<greatest>> \o Sorted(names \ {greatest})

\* sorted(list(names))
Sorted(names) ==
  IF names = {} THEN <<>>
  ELSE LET least == CHOOSE a \in names : \A b \in names \ {a} : StrLess(a, b)
       IN <<least>> \o Sorted(names \ {least})

\* generate: the circuit dict holds self.gates itself, not a copy of it
generate(self, h) ==
  LET output_gate == _build_circuit(self, h, self.parse_tree) IN
  [self |-> output_gate.self,
   heap |-> output_gate.heap,
   ret |-> [gates |-> output_gate.self.gates,
            output_gate |-> output_gate.ret,
            inputs |-> Sorted(output_gate.self.input_variables)]]

RECURSIVE Pow2(_)
Pow2(n) == IF n = 0 THEN 1 ELSE 2 * Pow2(n - 1)

\* the binary digits of i, most significant first
RECURSIVE Bin(_)
Bin(i) == IF i < 2 THEN <<IF i = 1 THEN "1" ELSE "0">>
          ELSE Bin(i \div 2) \o <<IF i % 2 = 1 THEN "1" ELSE "0">>

\* format(i, f'0{width}b'): the digits, zero-padded on the left to width
Format(i, width) ==
  LET digits == Bin(i) IN
  [k \in 1..(IF width > Len(digits) THEN width - Len(digits) ELSE 0) |-> "0"]
    \o digits

OutputKey == <<"O", "u", "t", "p", "u", "t">>

\* one pass of the for loop of generate_truth_table: the row dict of i
Row(inputs, output_gate, i) ==
  LET binary == Format(i, Len(inputs))
      variable_values ==
        [var \in {inputs[j] : j \in 1..Len(inputs)} |->
           binary[CHOOSE j \in 1..Len(inputs) :
                    /\ inputs[j] = var
                    /\ \A k \in (j + 1)..Len(inputs) : inputs[k] # var] = "1"]
      output == evaluate(output_gate, variable_values)
  IN [key \in {inputs[j] : j \in 1..Len(inputs)} \cup {OutputKey} |->
        IF key = OutputKey THEN output.ret ELSE output.variable_values[key]]

generate_truth_table(c) ==
  [n \in 1..Pow2(Len(c.inputs)) |-> Row(c.inputs, c.output_gate, n - 1)]

----------------------------------------------------------------------------
(* The expressions the program is run on *)

\* the longest expression of SpecParser, in words of CoreWords
MaxCoreWords == 4

\* the longest expression of SpecParser, in words of CoreWords and EdgeWords
MaxWords == 3

\* the longest expression of Spec, in words of CircuitWords
MaxCircuitWords == 3

\* the most generate() calls made on one CircuitGenerator
MaxGenerate == 2

AND == <<"A", "N", "D">>
OR == <<"O", "R">>
NOT == <<"N", "O", "T">>

CoreWords == {<<"A">>, <<"B">>, AND, OR, NOT, <<"(">>, <<")">>}

EdgeWords == {<<"&">>, <<"N", "O", "T", "A">>, OutputKey, <<>>}

CircuitWords == CoreWords \cup {<<"N", "O", "T", "A">>, OutputKey}

\* ' '.join(words)
RECURSIVE Join(_)
Join(words) ==
  IF words = <<>> THEN <<>>
  ELSE IF Len(words) = 1 THEN words[1]
  ELSE words[1] \o <<" ">> \o Join(Tail(words))

SeqsUpTo(S, n) == UNION {[1..k -> S] : k \in 0..n}

\* The edge cases of handle_edge_cases, the banner's example, and longer
\* expressions than the word bounds reach.
Examples ==
  { Join(<<<<"A">>, <<"X", "O", "R">>, <<"B">>>>),
    Join(<<<<"(", "A">>, AND, <<"B">>>>),
    Join(<<<<"(", "A">>, AND, <<"B", ")">>>>),
    Join(<<<<"(", "A">>, AND, <<"B", ")">>, OR, <<"(", "N", "O", "T">>, <<"C", ")">>>>),
    Join(<<<<"A">>, AND, <<"B">>, OR, <<"C">>>>),
    Join(<<<<"A">>, OR, <<"B">>, AND, <<"C">>>>),
    Join(<<<<"A">>, OR, <<"B">>, OR, <<"C">>>>),
    Join(<<<<"A">>, AND, <<"B">>, AND, <<"C">>>>),
    Join(<<<<"A">>, AND, <<"(", "B">>, OR, <<"C", ")">>>>),
    Join(<<<<"(", "A">>, OR, <<"B", ")">>, AND, <<"C">>>>),
    Join(<<NOT, <<"(", "B">>, OR, NOT, <<"A", ")">>>>),
    Join(<<<<"b">>, OR, <<"a">>, AND, <<"B">>>>),
    Join(<<<<"A">>, AND, <<"B">>, <<"C">>>>),
    Join(<<<<"A">>, <<"B">>, <<"&">>>>),
    <<"O", "R", "A", "N", "G", "E">>,
    <<"A", "N", "D", "Y">>,
    <<"O", "R", "_", "1">>,
    <<"A", " ", "O", "R", "B">>,
    <<"N", "O", "T", "_", "A">>,
    <<"A", "1", " ", "O", "R", " ", "_", "b">>,
    <<"A", "1", " ", "O", "R", " ", "A">>,
    <<"(", ")">>,
    <<"1">>,
    <<"A", "\t", "B">>,
    <<"A", "|", "B">>,
    <<"A", "&", "B">> }

\* the expressions handed to the parser alone
ParserExpressions ==
  {Join(words) : words \in SeqsUpTo(CoreWords, MaxCoreWords)}
    \cup {Join(words) : words \in SeqsUpTo(CoreWords \cup EdgeWords, MaxWords)}
    \cup Examples

\* the expressions taken through main's whole try block
Expressions ==
  {Join(words) : words \in SeqsUpTo(CircuitWords, MaxCircuitWords)} \cup Examples

\* The names a reader sees in e: its maximal runs of identifier characters
\* that start with a letter or underscore, the three operator words apart.
\* They are the keys a caller of Gate.evaluate may put in a dict of its own;
\* the program computes no such set, and its own names, circuit['inputs'],
\* differ from them where a run begins with an operator word.
Runs(e) ==
  {Slice(e, i, IdentEnd(e, i)) : i \in {j \in 0..(Len(e) - 1) :
      /\ IsIdentStart(e[j + 1])
      /\ (j = 0 \/ ~IsIdentChar(e[j]))}}

NamesIn(e) == Runs(e) \ {AND, OR, NOT}

----------------------------------------------------------------------------
(* main.py: one pass of main's loop, and the calls a caller can make on the
   objects it holds *)

InitWith(expressions) ==
  /\ parser \in {LogicParser(e) : e \in expressions}
  /\ pc = "start"
  /\ parse_tree = None
  /\ exc = NoExc
  /\ generator = None
  /\ heap = <<>>
  /\ circuits = <<>>
  /\ last_call = None

Init == InitWith(Expressions)

InitParser == InitWith(ParserExpressions)

\* parse_tree = parser.parse(), or the except branch of main
Parse ==
  /\ pc = "start"
  /\ LET r == parse(parser) IN
       /\ parser' = r.self
       /\ parse_tree' = r.ret
       /\ exc' = r.exc
       /\ pc' = IF r.exc = NoExc THEN "parsed" ELSE "failed"
  /\ UNCHANGED <<generator, heap, circuits, last_call>>

\* generator = CircuitGenerator(parse_tree)
NewGenerator ==
  /\ pc = "parsed"
  /\ LET g == CircuitGenerator(parse_tree, heap) IN
       /\ generator' = g.self
       /\ heap' = g.heap
  /\ pc' = "generator"
  /\ UNCHANGED <<parser, parse_tree, exc, circuits, last_call>>

\* circuit = generator.generate()
Generate ==
  /\ pc = "generator"
  /\ Len(circuits) < MaxGenerate
  /\ LET g == generate(generator, heap) IN
       /\ generator' = g.self
       /\ heap' = g.heap
       /\ circuits' = Append(circuits, g.ret)
  /\ UNCHANGED <<parser, pc, parse_tree, exc, last_call>>

\* truth_table = generator.generate_truth_table(circuit)
GenerateTruthTable ==
  /\ pc = "generator"
  /\ \E i \in 1..Len(circuits) :
       last_call' = [type |-> "generate_truth_table",
                     circuit |-> i,
                     truth_table |-> generate_truth_table(circuits[i])]
  /\ UNCHANGED <<parser, pc, parse_tree, exc, generator, heap, circuits>>

\* test_circuit_interactively(circuit), one pass of its loop in which every
\* prompt is answered 0 or 1: variable_values gets a value for each name of
\* circuit['inputs'] and for no other, then the output gate is evaluated
TestCircuitInteractively ==
  /\ pc = "generator"
  /\ \E i \in 1..Len(circuits) :
       LET inputs == circuits[i].inputs
           output_gate == circuits[i].output_gate
       IN \E variable_values \in [{inputs[j] : j \in 1..Len(inputs)} -> BOOLEAN] :
            LET result == evaluate(output_gate, variable_values) IN
            last_call' = [type |-> "test_circuit_interactively",
                          circuit |-> i,
                          supplied |-> variable_values,
                          variable_values |-> result.variable_values,
                          result |-> result.ret]
  /\ UNCHANGED <<parser, pc, parse_tree, exc, generator, heap, circuits>>

\* output_gate.evaluate(variable_values) called with a dict of the caller's
\* own, as Gate.evaluate allows: values for any of the circuit's inputs, or
\* for the names the caller sees in the text the parser read. main never
\* makes such a call. supplied keeps the dict as it was handed over,
\* variable_values is the dict after the call.
Evaluate ==
  /\ pc = "generator"
  /\ \E i \in 1..Len(circuits) :
       \E names \in SUBSET {circuits[i].inputs[j] : j \in 1..Len(circuits[i].inputs)}
                       \cup {NamesIn(Slice(parser.expression, 0, parser.pos))} :
         \E variable_values \in [names -> BOOLEAN] :
           LET result == evaluate(circuits[i].output_gate, variable_values) IN
           last_call' = [type |-> "evaluate",
                         circuit |-> i,
                         supplied |-> variable_values,
                         variable_values |-> result.variable_values,
                         result |-> result.ret]
  /\ UNCHANGED <<parser, pc, parse_tree, exc, generator, heap, circuits>>

Next ==
  \/ Parse
  \/ NewGenerator
  \/ Generate
  \/ GenerateTruthTable
  \/ TestCircuitInteractively
  \/ Evaluate

Spec == Init /\ [][Next]_vars

\* handle_edge_cases: each expression is parsed and nothing else is done
SpecParser == InitParser /\ [][Parse]_vars

----------------------------------------------------------------------------
(* What the properties below are stated with *)

Expression == parser.expression

\* The tokens next_token yields when called again and again from the start
\* of e, up to the end of e or to the call that raises: the tokens, what the
\* last call raised, and where the parser's pos was left.
RECURSIVE ScanFrom(_)
ScanFrom(self) ==
  LET n == next_token(self) IN
  IF n.exc # NoExc THEN [tokens |-> <<>>, exc |-> n.exc, pos |-> n.self.pos]
  ELSE IF n.self.current_token = None
    THEN [tokens |-> <<>>, exc |-> NoExc, pos |-> n.self.pos]
  ELSE LET rest == ScanFrom(n.self) IN
       [rest EXCEPT !.tokens = <<n.self.current_token>> \o rest.tokens]

TokenStream(e) == ScanFrom(LogicParser(e))

\* The positions at which those calls stand once the spaces are skipped
RECURSIVE ScanPositions(_)
ScanPositions(self) ==
  LET n == next_token(self) IN
  {SkipSpaces(self.expression, self.pos)}
    \cup (IF n.exc # NoExc \/ n.self.current_token = None THEN {}
          ELSE ScanPositions(n.self))

Sub(ts, a, b) == [i \in 1..(b - a + 1) |-> ts[a + i - 1]]

\* the number of parentheses open before token i
Depth(ts, i) ==
  Cardinality({k \in 1..(i - 1) : ts[k].type = "LPAREN"})
    - Cardinality({k \in 1..(i - 1) : ts[k].type = "RPAREN"})

\* the places of the operator op outside every pair of parentheses
TopLevel(ts, op) ==
  {i \in 1..Len(ts) :
     /\ ts[i].type = op
     /\ Depth(ts, i) = 0
     /\ \A k \in 1..i : Depth(ts, k) >= 0}

Max(S) == CHOOSE x \in S : \A y \in S : y <= x

\* The tree the grammar
\*     expr := term (OR term)*   term := factor (AND factor)*
\*     factor := NOT factor | LPAREN expr RPAREN | IDENTIFIER
\* gives a token sequence, found from the operators and not by reading left
\* to right: an expr splits at its last OR outside parentheses, a term at
\* its last AND outside parentheses, a factor is a NOT before a factor, one
\* parenthesised expr, or one identifier. None when the grammar derives no
\* such sequence.
RECURSIVE GrammarExpr(_), GrammarTerm(_), GrammarFactor(_)
GrammarExpr(ts) ==
  LET ors == TopLevel(ts, "OR") IN
  IF ors = {} THEN GrammarTerm(ts)
  ELSE LET k == Max(ors)
           l == GrammarExpr(Sub(ts, 1, k - 1))
           r == GrammarTerm(Sub(ts, k + 1, Len(ts)))
       IN IF l = None \/ r = None THEN None
          ELSE [type |-> "OR", left |-> l, right |-> r]

GrammarTerm(ts) ==
  LET ands == TopLevel(ts, "AND") IN
  IF TopLevel(ts, "OR") # {} THEN None
  ELSE IF ands = {} THEN GrammarFactor(ts)
  ELSE LET k == Max(ands)
           l == GrammarTerm(Sub(ts, 1, k - 1))
           r == GrammarFactor(Sub(ts, k + 1, Len(ts)))
       IN IF l = None \/ r = None THEN None
          ELSE [type |-> "AND", left |-> l, right |-> r]

GrammarFactor(ts) ==
  IF ts = <<>> \/ TopLevel(ts, "OR") # {} \/ TopLevel(ts, "AND") # {} THEN None
  ELSE IF ts[1].type = "NOT" THEN
    LET r == GrammarFactor(Tail(ts)) IN
    IF r = None THEN None ELSE [type |-> "NOT", right |-> r]
  ELSE IF ts[1].type = "LPAREN" THEN
    IF /\ Len(ts) >= 3
       /\ ts[Len(ts)].type = "RPAREN"
       /\ \A k \in 2..Len(ts) : Depth(ts, k) >= 1
    THEN GrammarExpr(Sub(ts, 2, Len(ts) - 1))
    ELSE None
  ELSE IF ts[1].type = "IDENTIFIER" /\ Len(ts) = 1 THEN
    [type |-> "IDENTIFIER", value |-> ts[1].value]
  ELSE None

Derivable(ts) == GrammarExpr(ts) # None

\* The tokens of e as the language is defined: spaces separate, a
\* parenthesis is a token, and a whole run of identifier characters is one
\* token, an operator when it is exactly AND, OR or NOT and an identifier
\* otherwise. ok is FALSE when some character starts no token.
RECURSIVE LanguageTokens(_, _)
LanguageTokens(e, pos) ==
  LET p == SkipSpaces(e, pos) IN
  IF p >= Len(e) THEN [tokens |-> <<>>, ok |-> TRUE]
  ELSE IF e[p + 1] \in {"(", ")"} THEN
    LET rest == LanguageTokens(e, p + 1) IN
    [rest EXCEPT !.tokens =
       <<[type |-> IF e[p + 1] = "(" THEN "LPAREN" ELSE "RPAREN"]>> \o rest.tokens]
  ELSE IF IsIdentStart(e[p + 1]) THEN
    LET run == Slice(e, p, IdentEnd(e, p))
        rest == LanguageTokens(e, p + Len(run))
    IN [rest EXCEPT !.tokens =
          <<IF run = <<"A", "N", "D">> THEN [type |-> "AND"]
            ELSE IF run = <<"O", "R">> THEN [type |-> "OR"]
            ELSE IF run = <<"N", "O", "T">> THEN [type |-> "NOT"]
            ELSE [type |-> "IDENTIFIER", value |-> run]>> \o rest.tokens]
  ELSE [tokens |-> <<>>, ok |-> FALSE]

\* e is an expression of the language, and its tree
ValidExpression(e) ==
  LET l == LanguageTokens(e, 0) IN l.ok /\ Derivable(l.tokens)

TreeOf(e) == GrammarExpr(LanguageTokens(e, 0).tokens)

RECURSIVE Variables(_)
Variables(node) ==
  IF node.type = "IDENTIFIER" THEN {node.value}
  ELSE IF node.type = "NOT" THEN Variables(node.right)
  ELSE Variables(node.left) \cup Variables(node.right)

\* the truth value of a tree under an assignment of all its variables
RECURSIVE Value(_, _)
Value(node, assignment) ==
  IF node.type = "IDENTIFIER" THEN assignment[node.value]
  ELSE IF node.type = "NOT" THEN ~Value(node.right, assignment)
  ELSE IF node.type = "AND"
    THEN Value(node.left, assignment) /\ Value(node.right, assignment)
  ELSE Value(node.left, assignment) \/ Value(node.right, assignment)

\* the nodes of a tree: left subtree, right subtree, node
RECURSIVE PostOrder(_)
PostOrder(node) ==
  IF node.type = "IDENTIFIER" THEN <<node>>
  ELSE IF node.type = "NOT" THEN PostOrder(node.right) \o <<node>>
  ELSE PostOrder(node.left) \o PostOrder(node.right) \o <<node>>

\* the tree a gate stands for
RECURSIVE TreeOfGate(_)
TreeOfGate(gate) ==
  IF gate.gate_type = "INPUT" THEN [type |-> "IDENTIFIER", value |-> gate.inputs[1]]
  ELSE IF gate.gate_type = "NOT"
    THEN [type |-> "NOT", right |-> TreeOfGate(gate.inputs[1])]
  ELSE [type |-> gate.gate_type,
        left |-> TreeOfGate(gate.inputs[1]),
        right |-> TreeOfGate(gate.inputs[2])]

\* bit j, counted from 1 at the most significant, of the k-bit form of i
Bit(i, k, j) == (i \div Pow2(k - j)) % 2

\* tokens that open a factor and leave the parser where a factor must follow
Openers(ts) == \A k \in 1..Len(ts) : ts[k].type \in {"NOT", "LPAREN"}

----------------------------------------------------------------------------
(* Properties *)

\* the last call evaluated a circuit's output gate under an assignment
Evaluated == last_call.type \in {"evaluate", "test_circuit_interactively"}

Id(name) == [type |-> "IDENTIFIER", value |-> name]

\* C1: for every valid expression and every assignment of its variables,
\* evaluating the output gate of the circuit built from its parse tree gives
\* the truth value of the expression under that assignment.
C1_CircuitComputesExpression ==
  ( /\ Evaluated
    /\ ValidExpression(Expression)
    /\ DOMAIN last_call.variable_values = Variables(TreeOf(Expression)) )
  => last_call.result = Value(TreeOf(Expression), last_call.variable_values)

\* C2: generate_truth_table returns 2^k rows for k inputs; row i gives
\* inputs[j] the bit j of i, most significant first, so the rows differ
\* pairwise and ascend; each row's Output is the output gate evaluated under
\* the row's assignment.
C2_TruthTableRows ==
  last_call.type = "generate_truth_table" =>
    LET c == circuits[last_call.circuit]
        rows == last_call.truth_table
        k == Len(c.inputs)
        names == {c.inputs[j] : j \in 1..k}
        assignment(i) ==
          [name \in names |->
             Bit(i, k, CHOOSE j \in 1..k : c.inputs[j] = name) = 1]
    IN /\ Len(rows) = Pow2(k)
       /\ \A i \in 0..(Pow2(k) - 1) :
            /\ \A j \in 1..k : rows[i + 1][c.inputs[j]] = (Bit(i, k, j) = 1)
            /\ rows[i + 1][OutputKey] = evaluate(c.output_gate, assignment(i)).ret
       /\ \A i \in 1..Len(rows) : \A i2 \in (i + 1)..Len(rows) :
            \E j \in 1..k : rows[i][c.inputs[j]] # rows[i2][c.inputs[j]]

\* C5: once generate() has returned a circuit, no later operation changes
\* its gates sequence, its output gate or its inputs list.
C5_CircuitNeverChanges ==
  [][\A i \in 1..Len(circuits) :
       /\ circuits'[i] = circuits[i]
       /\ heap'[circuits[i].gates] = heap[circuits[i].gates]]_vars

\* C3: parse fails whenever tokens remain after a complete top-level
\* expression: once parse has returned a tree, no token is left unconsumed.
C3_TrailingTokensRejected ==
  pc = "parsed" => parser.current_token = None

\* C4: the tokenizer yields AND, OR or NOT only when the whole run of
\* identifier characters at the scan position is that word; any other run
\* that starts like an identifier is one IDENTIFIER token carrying the run.
\* Checked of every token the parser has read during parse.
C4_KeywordOnlyForWholeRun ==
  pc # "start" =>
    \A p \in ScanPositions(LogicParser(Expression)) :
      LET n == next_token([LogicParser(Expression) EXCEPT !.pos = p])
          run == Slice(Expression, p, IdentEnd(Expression, p))
      IN (p < parser.pos /\ IsIdentStart(Expression[p + 1])) =>
           /\ n.exc = NoExc
           /\ n.self.current_token =
                IF run \in {AND, OR, NOT} THEN [type |-> KeywordType(run)]
                ELSE Id(run)

\* The parser is sure to stand where a factor must start once it has read
\* the first n tokens of ts: they are NOTs and opening parentheses alone, or
\* such a run followed by a complete expression and an AND or OR.
FactorDue(ts, n) ==
  \E k \in 0..n :
    /\ Openers(Sub(ts, 1, k))
    /\ \/ k = n
       \/ /\ n >= k + 2
          /\ ts[n].type \in {"AND", "OR"}
          /\ Derivable(Sub(ts, k + 1, n - 1))

\* The parser is sure to have read exactly the first n tokens of ts, and so
\* to call next_token for the one after them: a factor is due after them, or
\* they are NOTs and opening parentheses followed by a complete expression.
ReadsOn(ts, n) ==
  \/ FactorDue(ts, n)
  \/ \E k \in 0..(n - 1) : Openers(Sub(ts, 1, k)) /\ Derivable(Sub(ts, k + 1, n))

\* C6: whenever the parser has consumed "(" and a complete expr and the
\* current token is not ")" (the end of the input or any other token), parse
\* fails with the error of the missing closing parenthesis and returns no
\* tree. The "(" is one the parser is sure to reach: only NOTs and opening
\* parentheses stand before it.
C6_MissingParenthesisReported ==
  pc # "start" =>
    LET s == TokenStream(Expression)
        ts == s.tokens
    IN \A i \in 1..Len(ts) : \A j \in (i + 2)..(Len(ts) + 1) :
         ( /\ Openers(Sub(ts, 1, i))
           /\ ts[i].type = "LPAREN"
           /\ Derivable(Sub(ts, i + 1, j - 1))
           /\ IF j <= Len(ts) THEN ts[j].type \notin {"RPAREN", "AND", "OR"}
              ELSE s.exc = NoExc )
         => /\ pc = "failed"
            /\ exc = <<"Missing closing parenthesis">>
            /\ parse_tree = None

\* "(A AND B" has failed for its missing parenthesis
C6_Witness ==
  /\ pc = "failed"
  /\ Expression = Join(<<<<"(", "A">>, AND, <<"B">>>>)
  /\ exc = <<"Missing closing parenthesis">>
  /\ parser.current_token = None

\* C7: whenever a factor position is reached and the current token is the
\* end of the input or a token other than NOT, LPAREN and IDENTIFIER, parse
\* fails with "Invalid factor" and returns no tree: empty and spaces-only
\* input, a leading binary operator, a dangling operator, "()".
C7_NoFactorIsAnError ==
  pc # "start" =>
    LET s == TokenStream(Expression)
        ts == s.tokens
    IN \A n \in 0..Len(ts) :
         ( /\ FactorDue(ts, n)
           /\ IF n < Len(ts) THEN ts[n + 1].type \in {"AND", "OR", "RPAREN"}
              ELSE s.exc = NoExc )
         => /\ pc = "failed"
            /\ exc = <<"Invalid factor">>
            /\ parse_tree = None
            /\ parser.current_token = IF n < Len(ts) THEN ts[n + 1] ELSE None

\* "AND B" has failed at its first token
C7_Witness ==
  /\ pc = "failed"
  /\ Expression = Join(<<AND, <<"B">>>>)
  /\ exc = <<"Invalid factor">>
  /\ parser.current_token = [type |-> "AND"]

\* a character on which no rule of next_token matches
NoRule(c) == c \notin {" ", "(", ")"} /\ ~IsIdentStart(c)

\* The parser is sure to call next_token on a character no rule matches: the
\* calls from the start of the expression end on one, and the parser reads on
\* after the tokens before it.
LexErrorDue ==
  LET s == TokenStream(Expression) IN
  /\ s.exc # NoExc
  /\ ReadsOn(s.tokens, Len(s.tokens))

\* C8 as claimed: whenever next_token, the spaces skipped, stands on a
\* character no rule matches, it fails with a lexical error that carries the
\* offending position, and parse surfaces the failure and returns no tree.
\* An error carries a position when its args hold one beside the message.
C8_LexErrorCarriesPosition ==
  (pc # "start" /\ LexErrorDue) =>
    /\ pc = "failed"
    /\ parse_tree = None
    /\ exc[1] = "Invalid character"
    /\ Len(exc) >= 2

\* C8 as amended: next_token, called at any position of the expression from
\* which the spaces lead to a character no rule matches, raises the error
\* whose only argument is the message "Invalid character", leaves the
\* parser's pos on that character and the current token as it was; parse
\* surfaces the failure and returns no tree.
C8_LexErrorSurfaces ==
  pc # "start" =>
    /\ \A p \in 0..Len(Expression) :
         LET q == SkipSpaces(Expression, p)
             n == next_token([parser EXCEPT !.pos = p])
         IN (q < Len(Expression) /\ NoRule(Expression[q + 1])) =>
              /\ n.exc = <<"Invalid character">>
              /\ n.self.pos = q
              /\ n.self.current_token = parser.current_token
    /\ LexErrorDue =>
         /\ pc = "failed"
         /\ parse_tree = None
         /\ exc = <<"Invalid character">>
         /\ parser.pos = TokenStream(Expression).pos
         /\ NoRule(Expression[parser.pos + 1])

\* "A & B" has failed with the parser's pos on the "&"
C8_Witness ==
  /\ pc = "failed"
  /\ Expression = <<"A", " ", "&", " ", "B">>
  /\ exc = <<"Invalid character">>
  /\ parser.pos = 2

\* C9: for every token sequence the grammar derives, parse returns the tree
\* the grammar prescribes: OR and AND chains nest to the left, AND binds
\* tighter than OR, NOT takes the single factor after it, and parentheses
\* add no node.
C9_ParseGivesGrammarTree ==
  pc # "start" =>
    LET s == TokenStream(Expression) IN
    (s.exc = NoExc /\ Derivable(s.tokens)) =>
       /\ pc = "parsed"
       /\ exc = NoExc
       /\ parse_tree = GrammarExpr(s.tokens)

\* "A AND B OR C" has been parsed to OR(AND(A, B), C)
C9_Witness ==
  /\ pc = "parsed"
  /\ Expression = Join(<<<<"A">>, AND, <<"B">>, OR, <<"C">>>>)
  /\ parse_tree = [type |-> "OR",
                   left |-> [type |-> "AND", left |-> Id(<<"A">>), right |-> Id(<<"B">>)],
                   right |-> Id(<<"C">>)]

\* C10: after one generate() on a fresh generator, circuit.gates is the
\* post-order image of the tree: one gate per node, a separate INPUT gate
\* for every occurrence of an identifier, the gate at index i with gate_id
\* i from 0, every operand gate in the list with a smaller id than the gate
\* it feeds, and the output gate last.
C10_GatesArePostOrder ==
  Len(circuits) = 1 =>
    LET c == circuits[1]
        gates == heap[c.gates]
        nodes == PostOrder(parse_tree)
    IN /\ Len(gates) = Len(nodes)
       /\ \A i \in 1..Len(gates) :
            /\ gates[i].gate_id = i - 1
            /\ TreeOfGate(gates[i]) = nodes[i]
            /\ gates[i].gate_type # "INPUT" =>
                 \A o \in 1..Len(gates[i].inputs) :
                   /\ gates[i].inputs[o].gate_id < gates[i].gate_id
                   /\ gates[gates[i].inputs[o].gate_id + 1] = gates[i].inputs[o]
       /\ \A i \in 1..Len(gates) : \A i2 \in 1..Len(gates) :
            gates[i].gate_id = gates[i2].gate_id => i = i2
       /\ c.output_gate = gates[Len(gates)]
       /\ generator.gate_counter = Len(gates)

\* "A OR A" has been built into two INPUT gates and the OR gate over them
C10_Witness ==
  /\ Len(circuits) = 1
  /\ Expression = Join(<<<<"A">>, OR, <<"A">>>>)
  /\ Len(heap[circuits[1].gates]) = 3
  /\ heap[circuits[1].gates][1].gate_type = "INPUT"
  /\ heap[circuits[1].gates][2].gate_type = "INPUT"
  /\ circuits[1].output_gate.gate_id = 2

\* a comes before b in lexicographic order: a is a proper prefix of b, or at
\* the first place where they differ a holds the character of lower code
LexBefore(a, b) ==
  \E k \in 1..Len(b) :
    /\ k <= Len(a) + 1
    /\ \A m \in 1..(k - 1) : a[m] = b[m]
    /\ (k = Len(a) + 1 \/ Code(a[k]) < Code(b[k]))

\* the variable names held by the INPUT gates of a list of gates
InputGateNames(gates) ==
  {gates[g].inputs[1] : g \in {i \in 1..Len(gates) : gates[i].gate_type = "INPUT"}}

\* C11: for every circuit returned by generate(), circuit.inputs is
\* strictly ascending in lexicographic order, hence free of duplicates and
\* independent of the order in which the variables appear in the
\* expression, and its set of names is exactly the set of variable names
\* held by the INPUT gates of circuit.gates.
C11_InputsSortedAndExact ==
  \A i \in 1..Len(circuits) :
    LET inputs == circuits[i].inputs
        gates == heap[circuits[i].gates]
    IN /\ \A j \in 1..(Len(inputs) - 1) : LexBefore(inputs[j], inputs[j + 1])
       /\ {inputs[j] : j \in 1..Len(inputs)} = InputGateNames(gates)

\* "b OR a AND B" has been built: the INPUT gates appear in the order b, a,
\* B, and the circuit's inputs are B, a, b
C11_Witness ==
  /\ Len(circuits) >= 1
  /\ Expression = Join(<<<<"b">>, OR, <<"a">>, AND, <<"B">>>>)
  /\ heap[circuits[1].gates][1].inputs = <<<<"b">>>>
  /\ heap[circuits[1].gates][2].inputs = <<<<"a">>>>
  /\ heap[circuits[1].gates][3].inputs = <<<<"B">>>>
  /\ circuits[1].inputs = <<<<"B">>, <<"a">>, <<"b">>>>

\* the assignment with false added for every one of the names it omits
Extended(assignment, names) ==
  [n \in DOMAIN assignment \cup names |->
     IF n \in DOMAIN assignment THEN assignment[n] ELSE FALSE]

\* C12: Gate.evaluate gives a result on every assignment, one that omits
\* variables of the gate tree included: the result is the result under the
\* assignment extended with false for each omitted variable, and the
\* supplied mapping is the same after the call as before it.
C12_PartialAssignmentDefaultsFalse ==
  Evaluated =>
    LET output_gate == circuits[last_call.circuit].output_gate
        full == Extended(last_call.supplied, Variables(TreeOfGate(output_gate)))
    IN /\ last_call.result \in BOOLEAN
       /\ last_call.result = evaluate(output_gate, full).ret
       /\ last_call.result = Value(TreeOfGate(output_gate), full)
       /\ last_call.variable_values = last_call.supplied

\* the circuit of "A OR B" has been evaluated under an assignment that gives
\* B true and omits A
C12_Witness ==
  /\ last_call.type = "evaluate"
  /\ Expression = Join(<<<<"A">>, OR, <<"B">>>>)
  /\ DOMAIN last_call.supplied = {<<"B">>}
  /\ last_call.supplied[<<"B">>] = TRUE
  /\ last_call.result = TRUE

============================================================================
